---- MODULE Spec2Model ----
(***************************************************************************)
(* Retrieval core of the repository: RAGVectorStore (rag/vector_store.py)  *)
(* and RAGRetriever (rag/retriever.py), with the two artifact files they   *)
(* persist to, and the ingestion functions of rag/ingest.py.  Python's     *)
(* None is a record with none |-> TRUE; the texts of stored chunks are     *)
(* strings, unit labels and the texts that are chunked are sequences of    *)
(* one-character strings so that lower(), split(), join() and the pattern  *)
(* match are computed, and an embedding is a tuple of integers.            *)
(***************************************************************************)
EXTENDS Integers, Sequences, FiniteSets, TLC

VARIABLES
    store,      \* the RAGVectorStore in hand: index, chunks, dimension
    succeeded,  \* history: a build_index or load_index on it has returned normally
    disk,       \* the two artifact files, at RAG_INDEX_PATH and RAG_CHUNKS_PATH
    retr,       \* the RAGRetriever in hand: constructed, and its self.store
    seen,       \* history: the files and the model's availability at its construction
    last,       \* the call that has just returned or raised
    ops,        \* calls made so far
    ing         \* the current call into rag/ingest.py, chunk_text's loop included

vars == <<store, succeeded, disk, retr, seen, last, ops, ing>>

\* ---------------------------------------------------------------- bounds

\* longest chunk list handed to build_index
MaxChunks == 2
\* largest top_k passed explicitly to search / retrieve: more than any index holds
MaxK == MaxChunks + 1
\* number of calls in one run
MaxOps == 3

\* most words in a text handed to chunk_text with explicit sizes
MaxWords == 5
\* largest chunk_size and overlap passed explicitly
MaxSize == 4
\* iterations of chunk_text's loop that are followed: more than any
\* terminating call over MaxWords words takes
MaxIterations == MaxWords + 2
\* most words in a text handed to detect_unit on its own
MaxHeading == 3

\* config/settings.py: TOP_K
TOP_K == 3

\* ---------------------------------------------------------------- values

UnitOne == <<"U", "n", "i", "t", "-", "1">>
UnitTwo == <<"U", "n", "i", "t", "-", "2">>
UnitUnknown == <<"U", "n", "k", "n", "o", "w", "n">>

\* chunk dicts as ingest_syllabus builds them (text, unit, bloom_level);
\* the third has an empty text
ChunkPool ==
    { [text |-> "alpha", unit |-> UnitOne, bloom_level |-> "Apply"],
      [text |-> "beta", unit |-> UnitTwo, bloom_level |-> "Remember"],
      [text |-> "", unit |-> UnitUnknown, bloom_level |-> "Apply"] }

RECURSIVE ListsUpTo(_)
ListsUpTo(n) ==
    IF n = 0 THEN {<<>>}
    ELSE LET shorter == ListsUpTo(n - 1)
         IN shorter \cup { Append(l, c) : l \in {s \in shorter : Len(s) = n - 1}, c \in ChunkPool }

ChunkLists == ListsUpTo(MaxChunks)

Queries == {"intro", "outro"}

\* the embedding model: one fixed vector per text
Encode(text) ==
    CASE text = "alpha" -> <<1>>
      [] text = "beta" -> <<2>>
      [] text = "intro" -> <<0>>
      [] text = "outro" -> <<3>>
      [] OTHER -> <<5>>

\* self.model.encode(texts): one row per text, in order
EncodeBatch(texts) == [i \in 1..Len(texts) |-> Encode(texts[i])]

\* ---------------------------------------------------------------- store

IndexNone == [none |-> TRUE, d |-> 0, rows |-> <<>>]

\* faiss.IndexFlatL2(d) followed by index.add(rows)
IndexFlatL2(d, rows) == [none |-> FALSE, d |-> d, rows |-> rows]

\* RAGVectorStore.__init__: index None, chunks [], dimension None (0)
NewStore == [none |-> FALSE, index |-> IndexNone, chunks |-> <<>>, dimension |-> 0]

\* a RAGRetriever's self.store = None
StoreNone == [none |-> TRUE, index |-> IndexNone, chunks |-> <<>>, dimension |-> 0]

\* what one call hands back: the store after it, a raise or a returned value,
\* and the calls it made to the encoder and to the faiss index, in order
Raise(st, exc, calls) ==
    [store |-> st, raised |-> TRUE, exc |-> exc, result |-> <<>>, calls |-> calls]
Return(st, res, calls) ==
    [store |-> st, raised |-> FALSE, exc |-> "", result |-> res, calls |-> calls]

\* texts = [chunk.get("text", "") for chunk in chunks if chunk.get("text")]
BuildTexts(chunks) ==
    LET kept == SelectSeq(chunks, LAMBDA c : c.text # "")
    IN [i \in 1..Len(kept) |-> kept[i].text]

\* mutant of build_index: the texts are encoded before they are looked at
build_index_encodes_first(st, chunks, encode_ok) ==
    IF chunks = <<>> THEN Raise(st, "ValueError", <<"encode">>)
    ELSE LET st1 == [st EXCEPT !.chunks = chunks]
             texts == BuildTexts(chunks)
         IN IF ~encode_ok THEN Raise(st1, "EncoderError", <<"encode">>)
            ELSE IF texts = <<>> THEN Raise(st1, "ValueError", <<"encode">>)
            ELSE LET embeddings == EncodeBatch(texts)
                     dim == Len(embeddings[1])
                 IN Return([st1 EXCEPT !.dimension = dim,
                                       !.index = IndexFlatL2(dim, embeddings)],
                           <<>>, <<"encode">>)

\* mutant of build_index: a call that raises discards the index
build_index_resets(st, chunks, encode_ok) ==
    IF chunks = <<>> THEN Raise([st EXCEPT !.index = IndexNone], "ValueError", <<>>)
    ELSE LET st1 == [st EXCEPT !.chunks = chunks, !.index = IndexNone]
             texts == BuildTexts(chunks)
         IN IF texts = <<>> THEN Raise(st1, "ValueError", <<>>)
            ELSE IF ~encode_ok THEN Raise(st1, "EncoderError", <<"encode">>)
            ELSE LET embeddings == EncodeBatch(texts)
                     dim == Len(embeddings[1])
                 IN Return([st1 EXCEPT !.dimension = dim,
                                       !.index = IndexFlatL2(dim, embeddings)],
                           <<>>, <<"encode">>)

\* mutant of build_index: the new vectors are added to the index in hand
build_index_appends(st, chunks, encode_ok) ==
    IF chunks = <<>> THEN Raise(st, "ValueError", <<>>)
    ELSE LET st1 == [st EXCEPT !.chunks = chunks]
             texts == BuildTexts(chunks)
         IN IF texts = <<>> THEN Raise(st1, "ValueError", <<>>)
            ELSE IF ~encode_ok THEN Raise(st1, "EncoderError", <<"encode">>)
            ELSE LET embeddings == EncodeBatch(texts)
                     dim == Len(embeddings[1])
                 IN Return([st1 EXCEPT !.dimension = dim,
                                       !.index = IndexFlatL2(dim, st.index.rows \o embeddings)],
                           <<>>, <<"encode">>)

\* RAGVectorStore.build_index
build_index(st, chunks, encode_ok) ==
    IF chunks = <<>> THEN Raise(st, "ValueError", <<>>)
    ELSE LET st1 == [st EXCEPT !.chunks = chunks]
             texts == BuildTexts(chunks)
         IN IF texts = <<>> THEN Raise(st1, "ValueError", <<>>)
            ELSE IF ~encode_ok THEN Raise(st1, "EncoderError", <<"encode">>)
            ELSE LET embeddings == EncodeBatch(texts)
                     dim == Len(embeddings[1])
                 IN Return([st1 EXCEPT !.dimension = dim,
                                       !.index = IndexFlatL2(dim, embeddings)],
                           <<>>, <<"encode">>)

\* ------------------------------------------------------------ artifacts

\* one artifact file: absent, unreadable (corrupt), or holding content
Absent == [state |-> "absent", index |-> IndexNone, chunks |-> <<>>]
Corrupt == [state |-> "corrupt", index |-> IndexNone, chunks |-> <<>>]
IndexFile(ix) == [state |-> "ok", index |-> ix, chunks |-> <<>>]
ChunksFile(cs) == [state |-> "ok", index |-> IndexNone, chunks |-> cs]

\* where a save_index call can fail: nowhere, in faiss.write_index (a partial
\* index file is left), in open(chunks_path, "wb") (the chunk file is left as
\* it was), or in pickle.dump (the chunk file is left truncated)
SaveFaults == {"none", "write_index", "open", "dump"}

\* mutant of save_index: only the chunks that were embedded are pickled
save_index_embedded_only(st, files, fault) ==
    IF st.index.none THEN [disk |-> files, out |-> Raise(st, "ValueError", <<>>)]
    ELSE IF fault # "none"
         THEN [disk |-> [files EXCEPT !.index = Corrupt], out |-> Raise(st, "IOError", <<>>)]
    ELSE [disk |-> [index |-> IndexFile(st.index),
                    chunks |-> ChunksFile(SelectSeq(st.chunks, LAMBDA c : c.text # ""))],
          out |-> Return(st, <<>>, <<>>)]

\* RAGVectorStore.save_index: the files after the call, and the outcome
save_index(st, files, fault) ==
    IF st.index.none THEN [disk |-> files, out |-> Raise(st, "ValueError", <<>>)]
    ELSE IF fault = "write_index"
         THEN [disk |-> [files EXCEPT !.index = Corrupt], out |-> Raise(st, "IOError", <<>>)]
    ELSE LET d1 == [files EXCEPT !.index = IndexFile(st.index)]
         IN IF fault = "open" THEN [disk |-> d1, out |-> Raise(st, "IOError", <<>>)]
            ELSE IF fault = "dump"
                 THEN [disk |-> [d1 EXCEPT !.chunks = Corrupt], out |-> Raise(st, "IOError", <<>>)]
            ELSE [disk |-> [d1 EXCEPT !.chunks = ChunksFile(st.chunks)],
                  out |-> Return(st, <<>>, <<>>)]

\* RAGVectorStore.load_index
load_index(st, files) ==
    IF files.index.state = "absent" THEN Raise(st, "FileNotFoundError", <<>>)
    ELSE IF files.chunks.state = "absent" THEN Raise(st, "FileNotFoundError", <<>>)
    ELSE IF files.index.state = "corrupt" THEN Raise(st, "ReadError", <<>>)
    ELSE LET st1 == [st EXCEPT !.index = files.index.index,
                               !.dimension = files.index.index.d]
         IN IF files.chunks.state = "corrupt" THEN Raise(st1, "UnpicklingError", <<>>)
            ELSE Return([st1 EXCEPT !.chunks = files.chunks.chunks], <<>>, <<>>)

\* --------------------------------------------------------------- search

RECURSIVE SumSq(_, _, _)
SumSq(q, v, i) ==
    IF i > Len(v) THEN 0 ELSE (q[i] - v[i]) * (q[i] - v[i]) + SumSq(q, v, i + 1)

\* IndexFlatL2's metric: squared Euclidean distance
L2(q, v) == SumSq(q, v, 1)

\* the distance faiss reports for a neighbour it does not have (FLT_MAX)
PadDistance == 2^30

\* how many rows come before row i in the result: the nearer ones, and of the
\* equally near the earlier ones
Rank(rows, q, i) ==
    Cardinality({ j \in 1..Len(rows) :
                    \/ L2(q, rows[j]) < L2(q, rows[i])
                    \/ L2(q, rows[j]) = L2(q, rows[i]) /\ j < i })

\* mutant of FaissSearch: the neighbours in row order instead of by distance
FaissSearchRowOrder(ix, q, k) ==
    [p \in 1..k |->
        IF p <= Len(ix.rows)
        THEN [idx |-> p - 1, distance |-> L2(q, ix.rows[p])]
        ELSE [idx |-> 0 - 1, distance |-> PadDistance]]

\* index.search(query_embedding, top_k): top_k (label, distance) pairs, nearest
\* first, labels zero-based, padded with label -1 when the index is smaller
FaissSearch(ix, q, k) ==
    [p \in 1..k |->
        IF p <= Len(ix.rows)
        THEN LET i == CHOOSE r \in 1..Len(ix.rows) : Rank(ix.rows, q, r) = p - 1
             IN [idx |-> i - 1, distance |-> L2(q, ix.rows[i])]
        ELSE [idx |-> 0 - 1, distance |-> PadDistance]]

\* mutant of Hit: the score is 1 / distance
HitUnshifted(chunk, distance) ==
    [distance |-> distance, score |-> [num |-> 1, den |-> distance]] @@ chunk

\* chunk.copy() with "distance" and "score" = 1.0 / (1.0 + distance), the
\* score kept as the fraction num / den
Hit(chunk, distance) ==
    [distance |-> distance, score |-> [num |-> 1, den |-> 1 + distance]] @@ chunk

\* mutant of ValidLabel: the upper bound one too small
ValidLabelOffByOne(idx, n) == 0 <= idx /\ idx < n - 1

\* the guard of the result loop
ValidLabel(idx, n) == 0 <= idx /\ idx < n

\* Python's list[idx]: zero-based, a negative idx counts from the end
PyGet(list, idx) == IF idx < 0 THEN list[Len(list) + idx + 1] ELSE list[idx + 1]

RECURSIVE CollectHits(_, _, _)
\* for i, idx in enumerate(indices[0]): if 0 <= idx < len(self.chunks): ...
CollectHits(chunks, found, i) ==
    IF i > Len(found) THEN <<>>
    ELSE IF ValidLabel(found[i].idx, Len(chunks))
         THEN <<Hit(PyGet(chunks, found[i].idx), found[i].distance)>>
              \o CollectHits(chunks, found, i + 1)
         ELSE CollectHits(chunks, found, i + 1)

\* mutant of search: "distance" and "score" are set on the stored chunk
\* itself, without copy()
search_in_place(st, query, top_k, encode_ok) ==
    IF st.index.none THEN Raise(st, "ValueError", <<>>)
    ELSE IF ~encode_ok THEN Raise(st, "EncoderError", <<"encode">>)
    ELSE LET found == FaissSearch(st.index, Encode(query), top_k)
             marked == [n \in 1..Len(st.chunks) |->
                          IF \E i \in 1..Len(found) : found[i].idx = n - 1
                          THEN Hit(st.chunks[n],
                                   found[CHOOSE i \in 1..Len(found) : found[i].idx = n - 1].distance)
                          ELSE st.chunks[n]]
         IN Return([st EXCEPT !.chunks = marked],
                   CollectHits(st.chunks, found, 1), <<"encode", "index.search">>)

\* RAGVectorStore.search
search(st, query, top_k, encode_ok) ==
    IF st.index.none THEN Raise(st, "ValueError", <<>>)
    ELSE IF ~encode_ok THEN Raise(st, "EncoderError", <<"encode">>)
    ELSE Return(st, CollectHits(st.chunks, FaissSearch(st.index, Encode(query), top_k), 1),
                <<"encode", "index.search">>)

\* ------------------------------------------------------------ retriever

\* an optional argument: None, or a value
NoneStr == [none |-> TRUE, val |-> ""]
NoneSeq == [none |-> TRUE, val |-> <<>>]
NoneInt == [none |-> TRUE, val |-> 0]
Some(v) == [none |-> FALSE, val |-> v]

\* str.lower() on the letters that occur in unit labels and filters
LowerChar(c) ==
    CASE c = "U" -> "u"
      [] c = "N" -> "n"
      [] c = "I" -> "i"
      [] c = "T" -> "t"
      [] c = "C" -> "c"
      [] c = "H" -> "h"
      [] c = "A" -> "a"
      [] c = "P" -> "p"
      [] c = "E" -> "e"
      [] c = "R" -> "r"
      [] OTHER -> c

Lower(s) == [i \in 1..Len(s) |-> LowerChar(s[i])]

\* Python's  needle in hay  on strings
Contains(hay, needle) ==
    \E i \in 0..(Len(hay) - Len(needle)) : SubSeq(hay, i + 1, i + Len(needle)) = needle

\* mutant of load_store: the except branch does not reset self.store
load_store_keeps_failed(files, model_ok) ==
    IF files.index.state # "absent" /\ files.chunks.state # "absent"
    THEN IF ~model_ok THEN StoreNone
         ELSE load_index(NewStore, files).store
    ELSE StoreNone

\* RAGRetriever._load_store, called by __init__: the value of self.store
\* (model_ok: whether RAGVectorStore() could load its embedding model)
load_store(files, model_ok) ==
    IF files.index.state # "absent" /\ files.chunks.state # "absent"
    THEN IF ~model_ok THEN StoreNone
         ELSE LET out == load_index(NewStore, files)
              IN IF out.raised THEN StoreNone ELSE out.store
    ELSE StoreNone

\* RAGRetriever.is_ready
is_ready(r) == ~r.store.none

\* mutant of ApplyUnitFilter: the comparison without lower()
ApplyUnitFilterCaseSensitive(results, unit_filter) ==
    IF unit_filter.none \/ unit_filter.val = <<>> THEN results
    ELSE SelectSeq(results, LAMBDA r : Contains(r.unit, unit_filter.val))

\* if unit_filter: results = [r for r in results
\*                            if unit_filter.lower() in r.get("unit", "").lower()]
ApplyUnitFilter(results, unit_filter) ==
    IF unit_filter.none \/ unit_filter.val = <<>> THEN results
    ELSE SelectSeq(results, LAMBDA r : Contains(Lower(r.unit), Lower(unit_filter.val)))

\* if bloom_filter: results = [r for r in results
\*                             if r.get("bloom_level") == bloom_filter]
ApplyBloomFilter(results, bloom_filter) ==
    IF bloom_filter.none \/ bloom_filter.val = "" THEN results
    ELSE SelectSeq(results, LAMBDA r : r.bloom_level = bloom_filter.val)

\* top_k or TOP_K
TopKOrDefault(top_k) == IF top_k.none \/ top_k.val = 0 THEN TOP_K ELSE top_k.val

\* results[:n] for n >= 0
Prefix(results, n) == SubSeq(results, 1, IF n < Len(results) THEN n ELSE Len(results))

\* mutant of retrieve: without the early return for self.store is None
retrieve_unguarded(r, query, top_k, unit_filter, bloom_filter, encode_ok) ==
    LET k == TopKOrDefault(top_k)
        found == search(r.store, query, k * 2, encode_ok)
    IN IF found.raised THEN found
       ELSE Return(r.store,
                   Prefix(ApplyBloomFilter(ApplyUnitFilter(found.result, unit_filter),
                                           bloom_filter), k),
                   found.calls)

\* mutant of retrieve: a search that raises makes the retriever drop its store
retrieve_drops_store(r, query, top_k, unit_filter, bloom_filter, encode_ok) ==
    IF r.store.none THEN Return(r.store, <<>>, <<>>)
    ELSE LET k == TopKOrDefault(top_k)
             found == search(r.store, query, k * 2, encode_ok)
         IN IF found.raised THEN Raise(StoreNone, found.exc, found.calls)
            ELSE Return(r.store,
                        Prefix(ApplyBloomFilter(ApplyUnitFilter(found.result, unit_filter),
                                                bloom_filter), k),
                        found.calls)

\* RAGRetriever.retrieve
retrieve(r, query, top_k, unit_filter, bloom_filter, encode_ok) ==
    IF r.store.none THEN Return(r.store, <<>>, <<>>)
    ELSE LET k == TopKOrDefault(top_k)
             found == search(r.store, query, k * 2, encode_ok)
         IN IF found.raised THEN found
            ELSE Return(r.store,
                        Prefix(ApplyBloomFilter(ApplyUnitFilter(found.result, unit_filter),
                                                bloom_filter), k),
                        found.calls)

\* one decimal digit as a character
DigitChar(d) ==
    CASE d = 0 -> "0" [] d = 1 -> "1" [] d = 2 -> "2" [] d = 3 -> "3" [] d = 4 -> "4"
      [] d = 5 -> "5" [] d = 6 -> "6" [] d = 7 -> "7" [] d = 8 -> "8" [] OTHER -> "9"

\* str(i) for a block number below 100
Digits(n) ==
    IF n < 10 THEN <<DigitChar(n)>> ELSE <<DigitChar(n \div 10), DigitChar(n % 10)>>

\* f"[Chunk {i} - {chunk.get('unit', 'Unknown')}]\n{chunk['text']}" as a
\* sequence of string pieces and digits
ContextBlock(i, chunk) ==
    <<"[Chunk ">> \o Digits(i) \o <<" - ">> \o chunk.unit \o <<"]", "\n", chunk.text>>

RECURSIVE JoinBlocksNoBlankLine(_, _)
\* mutant of JoinBlocks: the blocks are joined with a single newline
JoinBlocksNoBlankLine(chunks, i) ==
    IF i > Len(chunks) THEN <<>>
    ELSE IF i = Len(chunks) THEN ContextBlock(i, chunks[i])
    ELSE ContextBlock(i, chunks[i]) \o <<"\n">> \o JoinBlocksNoBlankLine(chunks, i + 1)

RECURSIVE JoinBlocks(_, _)
\* "\n\n".join(context_parts)
JoinBlocks(chunks, i) ==
    IF i > Len(chunks) THEN <<>>
    ELSE IF i = Len(chunks) THEN ContextBlock(i, chunks[i])
    ELSE ContextBlock(i, chunks[i]) \o <<"\n\n">> \o JoinBlocks(chunks, i + 1)

\* RAGRetriever.retrieve_context: the returned string in result
retrieve_context(r, query, top_k, encode_ok) ==
    LET got == retrieve(r, query, top_k, NoneSeq, NoneStr, encode_ok)
    IN IF got.raised THEN got
       ELSE IF got.result = <<>> THEN Return(r.store, <<>>, got.calls)
       ELSE Return(r.store, JoinBlocks(got.result, 1), got.calls)

\* --------------------------------------------------------------- ingest

\* A text is a sequence of runs, each run a sequence of one-character
\* strings that are either all whitespace or all not, and no two runs without
\* whitespace are adjacent: "Unit 1\n" is
\* << <<"U","n","i","t">>, <<" ">>, <<"1">>, <<"\n">> >>.

\* config/settings.py
CHUNK_SIZE == 500
CHUNK_OVERLAP == 50

IsSpace(c) == c \in {" ", "\n", "\t"}

IsDigit(c) == c \in {"0", "1", "2", "3", "4", "5", "6", "7", "8", "9"}

\* a run of whitespace
IsBlank(run) == \A i \in 1..Len(run) : IsSpace(run[i])

\* text.split(): the runs that are not whitespace, in order
Split(text) == SelectSeq(text, LAMBDA run : ~IsBlank(run))

\* " ".join(words): the words with one space between neighbours
Join(words) ==
    [i \in 1..(IF words = <<>> THEN 0 ELSE 2 * Len(words) - 1) |->
        IF i % 2 = 1 THEN words[(i + 1) \div 2] ELSE <<" ">>]

\* the truth value of text.strip(): some character is not whitespace
StripTruthy(text) == \E i \in 1..Len(text) : ~IsBlank(text[i])

\* Python's index clamping for a slice bound b on a list of n elements
SliceBound(b, n) ==
    IF b < 0 THEN (IF b + n < 0 THEN 0 ELSE b + n)
    ELSE IF b > n THEN n ELSE b

\* words[start:end], negative bounds counting from the end
PySlice(words, start, end) ==
    SubSeq(words, SliceBound(start, Len(words)) + 1, SliceBound(end, Len(words)))

\* chunk_size or CHUNK_SIZE
SizeOrDefault(chunk_size) ==
    IF chunk_size.none \/ chunk_size.val = 0 THEN CHUNK_SIZE ELSE chunk_size.val

\* overlap or CHUNK_OVERLAP
OverlapOrDefault(overlap) ==
    IF overlap.none \/ overlap.val = 0 THEN CHUNK_OVERLAP ELSE overlap.val

\* chunk_text up to its loop (lines 44-49): the defaults are applied, the
\* text is split and start is 0; with no words the while condition fails
\* at once and [] is returned
EnterChunkText(text, chunk_size, overlap) ==
    [pc |-> IF 0 < Len(Split(text)) THEN "loop" ELSE "done",
     chunk_size |-> SizeOrDefault(chunk_size),
     overlap |-> OverlapOrDefault(overlap),
     words |-> Split(text),
     start |-> 0,
     chunks |-> <<>>,
     iterations |-> 0]

\* mutant of Window: the start moves on by the whole chunk size
WindowNoOverlap(c) ==
    LET end == c.start + c.chunk_size
        chunk_words == PySlice(c.words, c.start, end)
        chunks == Append(c.chunks,
                         [text |-> Join(chunk_words), start_word |-> c.start,
                          end_word |-> IF end < Len(c.words) THEN end ELSE Len(c.words)])
    IN [c EXCEPT !.chunks = chunks,
                 !.start = end,
                 !.iterations = c.iterations + 1,
                 !.pc = IF end >= Len(c.words) THEN "done" ELSE "loop"]

\* one iteration of the while loop (lines 52-65), entered with start < len(words)
Window(c) ==
    LET end == c.start + c.chunk_size
        chunk_words == PySlice(c.words, c.start, end)
        text == Join(chunk_words)
        chunks == IF StripTruthy(text)
                  THEN Append(c.chunks,
                              [text |-> text, start_word |-> c.start,
                               end_word |-> IF end < Len(c.words) THEN end
                                            ELSE Len(c.words)])
                  ELSE c.chunks
        start == c.start + (c.chunk_size - c.overlap)
    IN [c EXCEPT !.chunks = chunks,
                 !.start = start,
                 !.iterations = c.iterations + 1,
                 !.pc = IF start >= Len(c.words) THEN "done" ELSE "loop"]

RECURSIVE RunLoop(_)
\* the while loop run to its end
RunLoop(c) == IF c.pc = "done" THEN c ELSE RunLoop(Window(c))

\* chunk_text(text) as ingest_syllabus calls it, with both defaults: the
\* list it returns
chunk_text(text) == RunLoop(EnterChunkText(text, NoneInt, NoneInt)).chunks

RECURSIVE ConcatBetween(_, _, _)
\* the elements lo..hi of a sequence of sequences, concatenated in order
ConcatBetween(text, lo, hi) ==
    IF lo > hi THEN <<>>
    ELSE IF lo = hi THEN text[lo]
    ELSE LET mid == (lo + hi) \div 2
         IN ConcatBetween(text, lo, mid) \o ConcatBetween(text, mid + 1, hi)

\* a text as one string of characters
Chars(text) == ConcatBetween(text, 1, Len(text))

\* the default unit_patterns, each r"<word>[\s-]*(\d+)", by their word
unit_patterns ==
    << <<"u", "n", "i", "t">>, <<"U", "N", "I", "T">>,
       <<"c", "h", "a", "p", "t", "e", "r">>, <<"C", "H", "A", "P", "T", "E", "R">> >>

\* [\s-]
IsSeparator(c) == IsSpace(c) \/ c = "-"

\* the first position from i on that holds no character of [\s-]
AfterSeparators(s, i) ==
    IF \E j \in i..Len(s) : ~IsSeparator(s[j])
    THEN CHOOSE j \in i..Len(s) :
            ~IsSeparator(s[j]) /\ \A h \in i..(j - 1) : IsSeparator(s[h])
    ELSE Len(s) + 1

\* (\d+) at position i: the longest run of digits that starts there
DigitsAt(s, i) ==
    LET last_digit ==
            CHOOSE e \in i..Len(s) :
                /\ \A h \in i..e : IsDigit(s[h])
                /\ (e = Len(s) \/ ~IsDigit(s[e + 1]))
    IN SubSeq(s, i, last_digit)

\* the pattern with this word matches s at position i, under re.IGNORECASE
MatchesAt(s, i, word) ==
    /\ i + Len(word) - 1 <= Len(s)
    /\ Lower(SubSeq(s, i, i + Len(word) - 1)) = Lower(word)
    /\ LET d == AfterSeparators(s, i + Len(word))
       IN d <= Len(s) /\ IsDigit(s[d])

\* match.group(1) of the match at position i
Group1(s, i, word) == DigitsAt(s, AfterSeparators(s, i + Len(word)))

\* re.finditer(pattern, s, re.IGNORECASE) has a match
HasMatch(s, word) == \E i \in 1..Len(s) : MatchesAt(s, i, word)

\* position of its first match: the leftmost
FirstMatch(s, word) ==
    CHOOSE i \in 1..Len(s) :
        MatchesAt(s, i, word) /\ \A h \in 1..(i - 1) : ~MatchesAt(s, h, word)

\* f"Unit-{unit_num}"
UnitLabel(unit_num) == <<"U", "n", "i", "t", "-">> \o unit_num

RECURSIVE ScanPatterns(_, _)
\* for pattern in unit_patterns, from the p-th on: the first match of the
\* first pattern that has one is returned, "Unknown" after the last pattern
ScanPatterns(text_lower, p) ==
    IF p > Len(unit_patterns) THEN UnitUnknown
    ELSE IF HasMatch(text_lower, unit_patterns[p])
         THEN UnitLabel(Group1(text_lower, FirstMatch(text_lower, unit_patterns[p]),
                               unit_patterns[p]))
         ELSE ScanPatterns(text_lower, p + 1)

\* mutant of detect_unit: the match that occurs first in the text wins,
\* whichever pattern it belongs to
detect_unit_leftmost(text) ==
    LET s == Lower(Chars(text))
        hits == { i \in 1..Len(s) :
                    \E p \in 1..Len(unit_patterns) : MatchesAt(s, i, unit_patterns[p]) }
    IN IF hits = {} THEN UnitUnknown
       ELSE LET i == CHOOSE h \in hits : \A g \in hits : h <= g
                p == CHOOSE q \in 1..Len(unit_patterns) : MatchesAt(s, i, unit_patterns[q])
            IN UnitLabel(Group1(s, i, unit_patterns[p]))

\* detect_unit(text) with the default patterns
detect_unit(text) == ScanPatterns(Lower(Chars(text)), 1)

\* "\n\n".join(pages)
JoinPages(pages) ==
    IF pages = <<>> THEN <<>>
    ELSE ConcatBetween([i \in 1..(2 * Len(pages) - 1) |->
                          IF i % 2 = 1 THEN pages[(i + 1) \div 2]
                          ELSE << <<"\n", "\n">> >>],
                      1, 2 * Len(pages) - 1)

\* load_pdf: the pages whose extracted text is not blank
load_pdf(file) == SelectSeq(file.pages, LAMBDA page : StripTruthy(page))

\* load_txt: the content of the file
load_txt(file) == file.content

\* ingest_syllabus lines 101-107: the file type, detected from the path
\* when none is given ("" when the path ends in neither .pdf nor .txt)
FileType(file, file_type) ==
    IF ~file_type.none THEN file_type.val
    ELSE IF file.suffix \in {"pdf", "txt"} THEN file.suffix ELSE ""

\* mutant of AllChunks: the ids counted from 1
AllChunksOneBased(page_chunks) ==
    [n \in 1..Len(page_chunks) |->
        [text |-> page_chunks[n].text,
         chunk_id |-> n,
         unit |-> detect_unit(page_chunks[n].text),
         page |-> 1,
         bloom_level |-> "Apply"]]

\* for i, chunk in enumerate(page_chunks): all_chunks, with chunk_id = i
\* (position n here, counted from 1, is Python's i = n - 1)
AllChunks(page_chunks) ==
    [n \in 1..Len(page_chunks) |->
        [text |-> page_chunks[n].text,
         chunk_id |-> n - 1,
         unit |-> detect_unit(page_chunks[n].text),
         page |-> 1,
         bloom_level |-> "Apply"]]

\* ingest_syllabus(file_path, file_type): raised and exc, or the text that
\* was loaded and the chunk list returned
ingest_syllabus(file, file_type) ==
    IF FileType(file, file_type) = ""
    THEN [raised |-> TRUE, exc |-> "ValueError", full_text |-> <<>>, result |-> <<>>]
    ELSE IF ~file.exists
    THEN [raised |-> TRUE, exc |-> "FileNotFoundError", full_text |-> <<>>,
          result |-> <<>>]
    ELSE LET full_text == IF FileType(file, file_type) = "pdf"
                          THEN JoinPages(load_pdf(file))
                          ELSE load_txt(file)
         IN [raised |-> FALSE, exc |-> "", full_text |-> full_text,
             result |-> AllChunks(chunk_text(full_text))]

\* no call into rag/ingest.py yet
NoIngest ==
    [op |-> "idle", text |-> <<>>, chunk_size |-> NoneInt, overlap |-> NoneInt,
     run |-> EnterChunkText(<<>>, NoneInt, NoneInt),
     label |-> <<>>, raised |-> FALSE, exc |-> "", result |-> <<>>]

RECURSIVE Numeral(_)
\* str(n) for n >= 0
Numeral(n) ==
    IF n < 10 THEN <<DigitChar(n)>> ELSE Numeral(n \div 10) \o <<DigitChar(n % 10)>>

\* words with the whitespace run sep between neighbours
Interleave(words, sep) ==
    [i \in 1..(IF words = <<>> THEN 0 ELSE 2 * Len(words) - 1) |->
        IF i % 2 = 1 THEN words[(i + 1) \div 2] ELSE sep]

\* a syllabus text: the words of a heading, then the n words w1 .. wn, with
\* sep between neighbours; padded, it begins and ends with whitespace
Syllabus(heading, n, sep, padded) ==
    LET body == Interleave(heading \o [i \in 1..n |-> <<"w">> \o Numeral(i)], sep)
    IN IF padded THEN << <<"\n">> >> \o body \o << <<" ", " ">> >> ELSE body

Separators == { <<" ">>, <<"\n", "\n">>, <<" ", "\t">> }

\* the texts handed to chunk_text with explicit sizes
ShortTexts ==
    { Syllabus(<<>>, n, sep, padded) :
        n \in 0..MaxWords, sep \in Separators, padded \in BOOLEAN }

\* chunk_size and overlap arguments: None, or a number
Sizes == {NoneInt} \cup { Some(k) : k \in 0..MaxSize }

HeadingWords ==
    { <<"u", "n", "i", "t">>, <<"U", "N", "I", "T", "-", "3">>,
      <<"C", "h", "a", "p", "t", "e", "r">>, <<"c", "h", "a", "p", "t", "e", "r", "-">>,
      <<"2">>, <<"1", "4">>, <<"x">> }

RECURSIVE WordLists(_)
\* the lists of at most n heading words
WordLists(n) ==
    IF n = 0 THEN {<<>>}
    ELSE LET shorter == WordLists(n - 1)
         IN shorter \cup { Append(l, w) : l \in {s \in shorter : Len(s) = n - 1},
                                         w \in HeadingWords }

\* the texts handed to detect_unit on its own
HeadingTexts == { Interleave(words, <<" ">>) : words \in WordLists(MaxHeading) }

\* headings a syllabus file begins with
Headings ==
    { <<>>,
      << <<"U", "N", "I", "T">>, <<"1">> >>,
      << <<"C", "h", "a", "p", "t", "e", "r", "-", "2">>, <<"U", "n", "i", "t", "-", "7">> >> }

\* word counts of syllabus files: none, one chunk of the default size, the
\* least that gives a second chunk
FileTexts ==
    { Syllabus(heading, n, <<" ">>, FALSE) :
        heading \in Headings, n \in {0, CHUNK_SIZE - CHUNK_OVERLAP, CHUNK_SIZE} }

\* the files handed to ingest_syllabus: a path suffix, whether the file
\* exists, its content read as text and its pages read by PdfReader
Files ==
    { [suffix |-> "txt", exists |-> e, content |-> t, pages |-> <<>>] :
        e \in BOOLEAN, t \in FileTexts }
    \cup { [suffix |-> "md", exists |-> TRUE, content |-> t, pages |-> <<>>] :
             t \in FileTexts }
    \cup { [suffix |-> "pdf", exists |-> e, content |-> <<>>, pages |-> ps] :
             e \in BOOLEAN,
             ps \in {<<>>} \cup { <<t, << <<" ">> >>, t>> : t \in FileTexts } }

\* the file_type arguments
FileTypes == { NoneStr, Some("txt"), Some("pdf") }

\* the scenario of a syllabus chunked with explicit sizes and then indexed
ScenarioWords == 900
ScenarioSize == 200
ScenarioOverlap == 40

\* texts of one word, of one window and of the scenario's length
PipelineTexts ==
    UNION { { Syllabus(heading, n - Len(heading), <<" ">>, FALSE) :
                n \in {Len(heading) + 1, ScenarioSize, ScenarioWords} } :
            heading \in Headings }

\* the sizes chunk_text is given there: the scenario's, the scenario's size
\* without overlap, and none
PipelineSizes ==
    { <<Some(ScenarioSize), Some(ScenarioOverlap)>>,
      <<Some(ScenarioSize), Some(0)>>,
      <<NoneInt, NoneInt>> }

\* the str a chunk's text is, as the store and the embedding model take it
AsString(text) == IF text = <<>> THEN "" ELSE ToString(Chars(text))

\* the dicts chunk_text returned, as build_index reads them
StoreChunks(windows) ==
    [n \in 1..Len(windows) |->
        [text |-> AsString(windows[n].text),
         start_word |-> windows[n].start_word,
         end_word |-> windows[n].end_word]]

\* -------------------------------------------------------------- actions

NoArgs ==
    [chunks |-> <<>>, query |-> "", top_k |-> NoneInt,
     unit_filter |-> NoneSeq, bloom_filter |-> NoneStr, fault |-> "none"]

\* the record of the call that has just returned or raised: its name,
\* arguments and outcome (ready: the value is_ready returned)
Called(op, args, out, ready) ==
    [op |-> op, args |-> args, raised |-> out.raised, exc |-> out.exc,
     result |-> out.result, calls |-> out.calls, ready |-> ready]

\* no call in progress: the caller is about to make its next call
Idle == Called("idle", NoArgs, Return(NewStore, <<>>, <<>>), FALSE)

UnitFilters ==
    { NoneSeq, Some(<<>>), Some(<<"U", "N", "I", "T", "-", "1">>),
      Some(<<"T", "-", "2">>) }

BloomFilters == { NoneStr, Some(""), Some("Remember") }

TopKs == {NoneInt} \cup { Some(k) : k \in 0..MaxK }

NoFiles == [index |-> Absent, chunks |-> Absent]

\* the artifact files an earlier run may have left behind: none, or what
\* build_index followed by save_index wrote (store.build_index(chunks);
\* store.save_index(), as in vector_store.py's __main__), a failed save included
EarlierRuns ==
    {NoFiles} \cup
    { save_index(build_index(NewStore, chunks, TRUE).store, NoFiles, fault).disk :
        chunks \in ChunkLists, fault \in SaveFaults }

\* a run of the indexing side: nothing on disk yet
Init ==
    /\ store = NewStore
    /\ succeeded = FALSE
    /\ disk = NoFiles
    /\ retr = [constructed |-> FALSE, store |-> StoreNone]
    /\ seen = [files |-> NoFiles, model_ok |-> TRUE]
    /\ last = Idle
    /\ ops = 0
    /\ ing = NoIngest

\* a run of the serving side: an earlier run's artifact files are on disk
InitServing ==
    /\ store = NewStore
    /\ succeeded = FALSE
    /\ disk \in EarlierRuns
    /\ retr = [constructed |-> FALSE, store |-> StoreNone]
    /\ seen = [files |-> NoFiles, model_ok |-> TRUE]
    /\ last = Idle
    /\ ops = 0
    /\ ing = NoIngest

CanCall == last.op = "idle" /\ ops < MaxOps

\* the caller has taken the outcome of its call and goes on
Ack ==
    /\ last.op # "idle"
    /\ last' = Idle
    /\ UNCHANGED <<ing, store, succeeded, disk, retr, seen, ops>>

\* store = RAGVectorStore(): a new store replaces the one in hand
Fresh ==
    /\ CanCall
    /\ store' = NewStore
    /\ succeeded' = FALSE
    /\ last' = Called("RAGVectorStore", NoArgs, Return(NewStore, <<>>, <<>>), FALSE)
    /\ ops' = ops + 1
    /\ UNCHANGED <<ing, disk, retr, seen>>

Build(chunks, encode_ok) ==
    /\ CanCall
    /\ LET out == build_index(store, chunks, encode_ok)
       IN /\ store' = out.store
          /\ succeeded' = (succeeded \/ ~out.raised)
          /\ last' = Called("build_index", [NoArgs EXCEPT !.chunks = chunks], out, FALSE)
    /\ ops' = ops + 1
    /\ UNCHANGED <<ing, disk, retr, seen>>

Save(fault) ==
    /\ CanCall
    /\ LET res == save_index(store, disk, fault)
       IN /\ disk' = res.disk
          /\ store' = res.out.store
          /\ last' = Called("save_index", [NoArgs EXCEPT !.fault = fault], res.out, FALSE)
    /\ ops' = ops + 1
    /\ UNCHANGED <<ing, succeeded, retr, seen>>

Load ==
    /\ CanCall
    /\ LET out == load_index(store, disk)
       IN /\ store' = out.store
          /\ succeeded' = (succeeded \/ ~out.raised)
          /\ last' = Called("load_index", NoArgs, out, FALSE)
    /\ ops' = ops + 1
    /\ UNCHANGED <<ing, disk, retr, seen>>

Search(query, top_k, encode_ok) ==
    /\ CanCall
    /\ LET out == search(store, query, top_k, encode_ok)
       IN /\ store' = out.store
          /\ last' = Called("search",
                            [NoArgs EXCEPT !.query = query, !.top_k = Some(top_k)],
                            out, FALSE)
    /\ ops' = ops + 1
    /\ UNCHANGED <<ing, succeeded, disk, retr, seen>>

\* an artifact file is removed from outside the program
Delete(which) ==
    /\ CanCall
    /\ disk[which].state # "absent"
    /\ disk' = [disk EXCEPT ![which] = Absent]
    /\ last' = Called("delete", NoArgs, Return(store, <<>>, <<>>), FALSE)
    /\ ops' = ops + 1
    /\ UNCHANGED <<ing, store, succeeded, retr, seen>>

\* retriever = RAGRetriever(): __init__ and the _load_store it calls
Construct(model_ok) ==
    /\ CanCall
    /\ retr' = [constructed |-> TRUE, store |-> load_store(disk, model_ok)]
    /\ seen' = [files |-> disk, model_ok |-> model_ok]
    /\ last' = Called("RAGRetriever", NoArgs, Return(store, <<>>, <<>>), FALSE)
    /\ ops' = ops + 1
    /\ UNCHANGED <<ing, store, succeeded, disk>>

IsReady ==
    /\ CanCall
    /\ retr.constructed
    /\ last' = Called("is_ready", NoArgs, Return(store, <<>>, <<>>), is_ready(retr))
    /\ ops' = ops + 1
    /\ UNCHANGED <<ing, store, succeeded, disk, retr, seen>>

Retrieve(query, top_k, unit_filter, bloom_filter, encode_ok) ==
    /\ CanCall
    /\ retr.constructed
    /\ LET out == retrieve(retr, query, top_k, unit_filter, bloom_filter, encode_ok)
       IN /\ retr' = [retr EXCEPT !.store = out.store]
          /\ last' = Called("retrieve",
                            [NoArgs EXCEPT !.query = query, !.top_k = top_k,
                                           !.unit_filter = unit_filter,
                                           !.bloom_filter = bloom_filter],
                            out, FALSE)
    /\ ops' = ops + 1
    /\ UNCHANGED <<ing, store, succeeded, disk, seen>>

RetrieveContext(query, top_k, encode_ok) ==
    /\ CanCall
    /\ retr.constructed
    /\ LET out == retrieve_context(retr, query, top_k, encode_ok)
       IN /\ retr' = [retr EXCEPT !.store = out.store]
          /\ last' = Called("retrieve_context",
                            [NoArgs EXCEPT !.query = query, !.top_k = top_k], out, FALSE)
    /\ ops' = ops + 1
    /\ UNCHANGED <<ing, store, succeeded, disk, seen>>

\* the indexing side: a store is built, searched, saved and reloaded
Next ==
    \/ Ack
    \/ Fresh
    \/ \E chunks \in ChunkLists, encode_ok \in BOOLEAN : Build(chunks, encode_ok)
    \/ \E fault \in SaveFaults : Save(fault)
    \/ Load
    \/ \E query \in Queries, top_k \in 1..MaxK, encode_ok \in BOOLEAN :
          Search(query, top_k, encode_ok)
    \/ \E which \in {"index", "chunks"} : Delete(which)

Spec == Init /\ [][Next]_vars

\* the serving side, on a store: it loads the artifact files and is searched
NextLoad ==
    \/ Ack
    \/ Fresh
    \/ Load
    \/ \E fault \in SaveFaults : Save(fault)
    \/ \E query \in Queries, top_k \in 1..MaxK, encode_ok \in BOOLEAN :
          Search(query, top_k, encode_ok)
    \/ \E which \in {"index", "chunks"} : Delete(which)

SpecLoad == InitServing /\ [][NextLoad]_vars

\* the serving side, through retrievers constructed over the artifact files
NextRetriever ==
    \/ Ack
    \/ \E which \in {"index", "chunks"} : Delete(which)
    \/ \E model_ok \in BOOLEAN : Construct(model_ok)
    \/ IsReady
    \/ \E query \in Queries, top_k \in TopKs, unit_filter \in UnitFilters,
          bloom_filter \in BloomFilters, encode_ok \in BOOLEAN :
          Retrieve(query, top_k, unit_filter, bloom_filter, encode_ok)
    \/ \E query \in Queries, top_k \in TopKs, encode_ok \in BOOLEAN :
          RetrieveContext(query, top_k, encode_ok)

SpecRetriever == InitServing /\ [][NextRetriever]_vars

\* a syllabus of more chunks than a retrieve call fetches neighbours
MaxCorpus == MaxChunks + 2

\* the artifact files left by indexing such a syllabus: build_index followed
\* by a save_index that completes
CorpusRuns ==
    { save_index(build_index(NewStore, chunks, TRUE).store, NoFiles, "none").disk :
        chunks \in ListsUpTo(MaxCorpus) }

\* a run of the serving side over a larger syllabus
InitCorpus ==
    /\ store = NewStore
    /\ succeeded = FALSE
    /\ disk \in CorpusRuns
    /\ retr = [constructed |-> FALSE, store |-> StoreNone]
    /\ seen = [files |-> NoFiles, model_ok |-> TRUE]
    /\ last = Idle
    /\ ops = 0
    /\ ing = NoIngest

\* a retriever is constructed over the files and queried
NextCorpus ==
    \/ Ack
    \/ \E model_ok \in BOOLEAN : Construct(model_ok)
    \/ \E query \in Queries, top_k \in TopKs, unit_filter \in UnitFilters,
          bloom_filter \in BloomFilters, encode_ok \in BOOLEAN :
          Retrieve(query, top_k, unit_filter, bloom_filter, encode_ok)

SpecCorpus == InitCorpus /\ [][NextCorpus]_vars

\* most chunks in a syllabus that is indexed while a retriever is in use
MaxReindexed == MaxChunks - 1

\* another process runs vector_store.py's __main__ while the retriever is in
\* use: a new RAGVectorStore is built over a syllabus and saved over the
\* artifact files (nothing is written when build_index raises)
Reindex(chunks, fault) ==
    /\ CanCall
    /\ LET built == build_index(NewStore, chunks, TRUE)
       IN /\ ~built.raised
          /\ disk' = save_index(built.store, disk, fault).disk
    /\ last' = Called("reindex", [NoArgs EXCEPT !.chunks = chunks, !.fault = fault],
                      Return(store, <<>>, <<>>), FALSE)
    /\ ops' = ops + 1
    /\ UNCHANGED <<ing, store, succeeded, retr, seen>>

\* the serving side while the artifact files are rewritten and removed
NextReindex ==
    \/ Ack
    \/ \E chunks \in ListsUpTo(MaxReindexed), fault \in SaveFaults : Reindex(chunks, fault)
    \/ \E which \in {"index", "chunks"} : Delete(which)
    \/ \E model_ok \in BOOLEAN : Construct(model_ok)
    \/ IsReady
    \/ \E query \in Queries, encode_ok \in BOOLEAN :
          Retrieve(query, NoneInt, NoneSeq, NoneStr, encode_ok)
    \/ \E query \in Queries, encode_ok \in BOOLEAN :
          RetrieveContext(query, NoneInt, encode_ok)

SpecReindex == InitServing /\ [][NextReindex]_vars

\* no call into rag/ingest.py is in progress: the caller is about to make one
IngestIdle == ing.op = "idle"

\* the caller has taken what its call returned or raised and goes on
IngestAck ==
    /\ ing.op # "idle"
    /\ ing.run.pc = "done"
    /\ ing' = NoIngest
    /\ UNCHANGED <<store, succeeded, disk, retr, seen, last, ops>>

\* chunks = chunk_text(text, chunk_size, overlap): the call enters the loop,
\* or returns [] at once for a text without words
ChunkText(text, chunk_size, overlap) ==
    /\ IngestIdle
    /\ ing' = [NoIngest EXCEPT !.op = "chunk_text", !.text = text,
                               !.chunk_size = chunk_size, !.overlap = overlap,
                               !.run = EnterChunkText(text, chunk_size, overlap)]
    /\ UNCHANGED <<store, succeeded, disk, retr, seen, last, ops>>

\* one iteration of chunk_text's loop; the call has returned when it leaves
\* the loop
ChunkTextLoop ==
    /\ ing.op = "chunk_text"
    /\ ing.run.pc = "loop"
    /\ ing.run.iterations < MaxIterations
    /\ ing' = [ing EXCEPT !.run = Window(ing.run)]
    /\ UNCHANGED <<store, succeeded, disk, retr, seen, last, ops>>

DetectUnit(text) ==
    /\ IngestIdle
    /\ ing' = [NoIngest EXCEPT !.op = "detect_unit", !.text = text,
                               !.label = detect_unit(text)]
    /\ UNCHANGED <<store, succeeded, disk, retr, seen, last, ops>>

\* chunks = ingest_syllabus(file_path, file_type), the file read as what it
\* is (a file that is neither PDF nor text is read as text when told to)
IngestSyllabus(file, file_type) ==
    /\ IngestIdle
    /\ \/ file_type.none
       \/ file_type.val = file.suffix
       \/ file.suffix = "md" /\ file_type.val = "txt"
    /\ LET out == ingest_syllabus(file, file_type)
       IN ing' = [NoIngest EXCEPT !.op = "ingest_syllabus",
                                  !.text = out.full_text,
                                  !.raised = out.raised, !.exc = out.exc,
                                  !.result = out.result]
    /\ UNCHANGED <<store, succeeded, disk, retr, seen, last, ops>>

\* the ingestion side: texts are chunked, labelled and ingested
NextIngest ==
    \/ IngestAck
    \/ \E text \in ShortTexts, chunk_size \in Sizes, overlap \in Sizes :
          ChunkText(text, chunk_size, overlap)
    \/ ChunkTextLoop
    \/ \E text \in HeadingTexts : DetectUnit(text)
    \/ \E file \in Files, file_type \in FileTypes : IngestSyllabus(file, file_type)

SpecIngest == Init /\ [][NextIngest]_vars

\* store.build_index(chunks) over the list a chunk_text call has returned
BuildFromChunks(encode_ok) ==
    /\ CanCall
    /\ ing.op = "chunk_text"
    /\ ing.run.pc = "done"
    /\ LET chunks == StoreChunks(ing.run.chunks)
           out == build_index(store, chunks, encode_ok)
       IN /\ store' = out.store
          /\ succeeded' = (succeeded \/ ~out.raised)
          /\ last' = Called("build_index", [NoArgs EXCEPT !.chunks = chunks], out, FALSE)
    /\ ops' = ops + 1
    /\ UNCHANGED <<ing, disk, retr, seen>>

\* chunking, indexing and searching in one run: a text is chunked with
\* explicit sizes, a store is built over the chunks and searched
NextPipeline ==
    \/ \E text \in PipelineTexts, sizes \in PipelineSizes :
          ChunkText(text, sizes[1], sizes[2])
    \/ ChunkTextLoop
    \/ \E encode_ok \in BOOLEAN : BuildFromChunks(encode_ok)
    \/ \E query \in Queries, top_k \in 1..MaxK, encode_ok \in BOOLEAN :
          Search(query, top_k, encode_ok)
    \/ Ack

SpecPipeline == Init /\ [][NextPipeline]_vars

\* --------------------------------------------------------------- claims

\* rows and chunks agree: as many rows as chunks, row i encoded from chunks[i].text
Aligned(st) ==
    /\ ~st.index.none
    /\ Len(st.index.rows) = Len(st.chunks)
    /\ \A i \in 1..Len(st.chunks) : st.index.rows[i] = Encode(st.chunks[i].text)

\* C1: after every build_index call that returns normally, the index holds as
\* many vectors as store.chunks has chunks and the vector at row i was produced
\* from store.chunks[i]['text'] (lists with some empty texts included).
C1_RowAlignment ==
    (last.op = "build_index" /\ ~last.raised) => Aligned(store)

\* C2: a build_index call that raises leaves the store's index, chunks and
\* dimension exactly as they were before the call.
C2_FailedBuildKeepsStore ==
    [][(last'.op = "build_index" /\ last'.raised) => store' = store]_vars

\* C3: load_index raises when either artifact file is absent or cannot be
\* deserialized, and a load_index call that raises on an uninitialized store
\* leaves it uninitialized: index None and chunk list empty (so that a later
\* search raises).
C3_FailedLoadStaysUninitialized ==
    [][(last'.op = "load_index") =>
          /\ (disk.index.state # "ok" \/ disk.chunks.state # "ok") => last'.raised
          /\ (last'.raised /\ store = NewStore) =>
                (store'.index.none /\ store'.chunks = <<>>)]_vars

\* the two files deserialize, to different numbers of rows
Mismatched(files) ==
    /\ files.index.state = "ok"
    /\ files.chunks.state = "ok"
    /\ Len(files.index.index.rows) # Len(files.chunks.chunks)

\* C4: load_index fails whenever the loaded index and the loaded chunk list
\* hold different numbers of rows, so a RAGRetriever constructed over such a
\* pair is not ready.
C4_MismatchedPairNotReady ==
    (last.op = "RAGRetriever" /\ Mismatched(seen.files)) => ~is_ready(retr)

\* at least one artifact file did not exist
Missing(files) == files.index.state = "absent" \/ files.chunks.state = "absent"

\* C5: a RAGRetriever constructed over artifact paths of which at least one
\* does not exist is not ready: is_ready() returns False, retrieve returns []
\* for every argument combination and retrieve_context returns the empty
\* string, none of them raising or calling the encoder or the index.
C5_NotReadyDegradation ==
    (retr.constructed /\ Missing(seen.files)) =>
        /\ ~is_ready(retr)
        /\ last.op = "is_ready" => (~last.raised /\ ~last.ready)
        /\ last.op \in {"retrieve", "retrieve_context"} =>
              (~last.raised /\ last.result = <<>> /\ last.calls = <<>>)

\* C5's case: retrieve with top_k and both filters given, on a retriever
\* constructed where the index file existed and the chunk file did not
C5_Witness ==
    /\ retr.constructed
    /\ seen.files.index.state = "ok"
    /\ seen.files.chunks.state = "absent"
    /\ last.op = "retrieve"
    /\ ~last.args.top_k.none
    /\ ~last.args.unit_filter.none /\ last.args.unit_filter.val # <<>>
    /\ ~last.args.bloom_filter.none /\ last.args.bloom_filter.val # ""

\* both files were there, could be deserialized, and the embedding model loaded
LoadCompletes(at) ==
    at.model_ok /\ at.files.index.state = "ok" /\ at.files.chunks.state = "ok"

\* C6: is_ready() never raises and is True exactly when the constructor's load
\* of the pair completed; a failed load is swallowed and leaves self.store
\* None, a completed one leaves a store whose index is not None.
C6_ReadyIffLoaded ==
    retr.constructed =>
        /\ is_ready(retr) <=> LoadCompletes(seen)
        /\ is_ready(retr) => ~retr.store.index.none
        /\ ~is_ready(retr) => retr.store = StoreNone
        /\ last.op = "is_ready" => (~last.raised /\ last.ready = LoadCompletes(seen))

\* C6's case: both files exist, load_index raises on the chunk file, and
\* is_ready() has answered False
C6_Witness ==
    /\ retr.constructed
    /\ seen.model_ok
    /\ seen.files.index.state = "ok"
    /\ seen.files.chunks.state = "corrupt"
    /\ last.op = "is_ready"
    /\ ~last.ready

\* C7: search on a store on which no build_index or load_index has yet
\* succeeded raises, for every query and top_k.
C7_SearchBeforeSuccessRaises ==
    (last.op = "search" /\ ~succeeded) => last.raised

\* C8: the list search returns is in non-decreasing order of distance.
C8_SortedByDistance ==
    (last.op = "search" /\ ~last.raised) =>
        \A i, j \in 1..Len(last.result) :
            i < j => last.result[i].distance <= last.result[j].distance

\* C8's case: two results at different distances, the nearer one from the
\* later row of the index
C8_Witness ==
    /\ last.op = "search"
    /\ ~last.raised
    /\ Len(last.result) = 2
    /\ last.result[1].distance < last.result[2].distance
    /\ Len(store.index.rows) = 2
    /\ L2(Encode(last.args.query), store.index.rows[2])
         < L2(Encode(last.args.query), store.index.rows[1])

\* the chunk fields of a search result
ChunkOf(hit) == [text |-> hit.text, unit |-> hit.unit, bloom_level |-> hit.bloom_level]

\* how many entries of a list are chunk c
Count(list, c) == Cardinality({ i \in 1..Len(list) : list[i] = c })

Min(a, b) == IF a < b THEN a ELSE b

\* C9: on a store holding N row-aligned chunks, search(query, top_k) with
\* top_k >= 1 returns exactly min(top_k, N) results without an error of its
\* own, and when top_k >= N each stored chunk exactly once.
C9_TopKClamped ==
    (last.op = "search" /\ Aligned(store) /\ last.exc # "EncoderError") =>
        LET n == Len(store.chunks)
            k == last.args.top_k.val
            got == [i \in 1..Len(last.result) |-> ChunkOf(last.result[i])]
        IN /\ ~last.raised
           /\ Len(last.result) = Min(k, n)
           /\ k >= n => \A c \in ChunkPool : Count(got, c) = Count(store.chunks, c)

\* C9's case: top_k larger than the two aligned chunks the store holds
C9_Witness ==
    /\ last.op = "search"
    /\ ~last.raised
    /\ Aligned(store)
    /\ Len(store.chunks) = 2
    /\ last.args.top_k.val > 2

\* a filter argument that Python takes as given: not None and not empty
GivenSeq(f) == ~f.none /\ f.val # <<>>
GivenStr(f) == ~f.none /\ f.val # ""

\* the hit passes every filter of the call that was given
Passes(hit, unit_filter, bloom_filter) ==
    /\ GivenSeq(unit_filter) => Contains(Lower(hit.unit), Lower(unit_filter.val))
    /\ GivenStr(bloom_filter) => hit.bloom_level = bloom_filter.val

\* C10: every chunk retrieve returns on a ready retriever satisfies every
\* filter given (unit: case-insensitive substring; bloom_level: equality), and
\* a filter that is not given (None, or empty) excludes nothing: a hit among
\* the neighbours fetched that passes the given filters is left out only when
\* top_k results are already returned.
C10_FiltersRespected ==
    (last.op = "retrieve" /\ is_ready(retr) /\ ~last.raised) =>
        LET a == last.args
            k == TopKOrDefault(a.top_k)
            found == search(retr.store, a.query, k * 2, TRUE).result
        IN /\ \A i \in 1..Len(last.result) :
                 Passes(last.result[i], a.unit_filter, a.bloom_filter)
           /\ \A i \in 1..Len(found) :
                 Passes(found[i], a.unit_filter, a.bloom_filter) =>
                     \/ Len(last.result) = k
                     \/ \E j \in 1..Len(last.result) : last.result[j] = found[i]

\* C10's case: an upper-case unit filter and a bloom filter, both given, with
\* one chunk returned and another chunk of the store filtered out
C10_Witness ==
    /\ last.op = "retrieve"
    /\ is_ready(retr)
    /\ ~last.raised
    /\ GivenSeq(last.args.unit_filter)
    /\ last.args.unit_filter.val # Lower(last.args.unit_filter.val)
    /\ GivenStr(last.args.bloom_filter)
    /\ Len(last.result) = 1
    /\ Len(retr.store.chunks) = 2
    /\ Len(retr.store.index.rows) = 2

\* C11: for every non-negative integer k passed explicitly as top_k (k = 0
\* included) and every filter combination, the list retrieve returns has at
\* most k elements.
C11_LengthAtMostK ==
    (last.op = "retrieve" /\ ~last.args.top_k.none /\ ~last.raised) =>
        Len(last.result) <= last.args.top_k.val

RECURSIVE IsSubsequence(_, _)
\* the elements of a occur in b, in the order they have in a
IsSubsequence(a, b) ==
    IF a = <<>> THEN TRUE
    ELSE IF b = <<>> THEN FALSE
    ELSE IF Head(a) = Head(b) THEN IsSubsequence(Tail(a), Tail(b))
    ELSE IsSubsequence(a, Tail(b))

\* C12: filtering never re-sorts: for every q, k and U the chunks returned by
\* retrieve(q, k, unit_filter=U) are a subsequence, in the same relative
\* order, of the result of the unfiltered call retrieve(q, 2k), and the
\* returned list is in non-decreasing order of distance.
C12_FilteredIsSubsequence ==
    (/\ last.op = "retrieve"
     /\ is_ready(retr)
     /\ ~last.raised
     /\ ~last.args.top_k.none
     /\ last.args.bloom_filter.none) =>
        LET a == last.args
            unfiltered == retrieve(retr, a.query, Some(2 * a.top_k.val),
                                   NoneSeq, NoneStr, TRUE).result
        IN /\ IsSubsequence(last.result, unfiltered)
           /\ \A i, j \in 1..Len(last.result) :
                 i < j => last.result[i].distance <= last.result[j].distance

\* C13: on a ready retriever, retrieve(q, k, U, B) equals the first k
\* elements of the list obtained by taking the store's 2k nearest neighbours
\* of q (one search with top_k = 2k) and keeping, in order, those that pass
\* the given filters; a chunk that is not among the 2k nearest is never
\* returned, even when fewer than k chunks are returned.
C13_OverFetchThenTruncate ==
    (/\ last.op = "retrieve"
     /\ is_ready(retr)
     /\ ~last.raised
     /\ ~last.args.top_k.none) =>
        LET a == last.args
            k == a.top_k.val
            nearest == search(retr.store, a.query, 2 * k, TRUE).result
            kept == SelectSeq(nearest,
                              LAMBDA h : Passes(h, a.unit_filter, a.bloom_filter))
        IN /\ last.result = Prefix(kept, k)
           /\ \A i \in 1..Len(last.result) :
                 \E j \in 1..Len(nearest) : nearest[j] = last.result[i]

\* chunk_text has been called with both sizes passed explicitly,
\* chunk_size >= 1 and 0 <= overlap < chunk_size
ExplicitValidSizes ==
    /\ ing.op = "chunk_text"
    /\ ~ing.chunk_size.none /\ ing.chunk_size.val >= 1
    /\ ~ing.overlap.none /\ ing.overlap.val >= 0
    /\ ing.overlap.val < ing.chunk_size.val

\* ceil(a / b) for b > 0, and 0 when a is not positive
Ceil(a, b) == IF a <= 0 THEN 0 ELSE (a + b - 1) \div b

\* C14: for every text of W > 0 words and every chunk size S and overlap O
\* with 0 <= O < S passed explicitly, chunk_text produces
\* ceil((W - O) / (S - O)) chunks, and at least 1.
C14_ChunkCount ==
    (ExplicitValidSizes /\ ing.run.pc = "done" /\ Len(Split(ing.text)) > 0) =>
        LET W == Len(Split(ing.text))
            S == ing.chunk_size.val
            O == ing.overlap.val
            n == Ceil(W - O, S - O)
        IN Len(ing.run.chunks) = IF n < 1 THEN 1 ELSE n

\* C15: chunk_text called with overlap >= chunk_size is rejected with a
\* configuration error raised at call time: it never enters the windowing
\* loop with a non-positive step.
C15_OverlapNotBelowSizeRejected ==
    (/\ ing.op = "chunk_text"
     /\ ~ing.chunk_size.none /\ ing.chunk_size.val >= 1
     /\ ~ing.overlap.none /\ ing.overlap.val >= ing.chunk_size.val) =>
        /\ ing.raised
        /\ ing.run.iterations = 0

\* C16: for every text and every explicitly passed chunk_size >= 1 and overlap
\* with 0 <= overlap < chunk_size (overlap = 0 included) chunk_text
\* terminates: every iteration moves the window start forward by at least one
\* word, so there are never more iterations than the start index counts, and
\* the call is in its loop exactly while the start index is below the word
\* count W.
C16_Terminates ==
    ExplicitValidSizes =>
        /\ ing.run.iterations <= ing.run.start
        /\ ing.run.pc = "loop" <=> ing.run.start < Len(Split(ing.text))

\* C17: for explicitly passed S and O with 0 <= O < S the j-th chunk
\* (j = 0, 1, ...) has start_word = j * (S - O), end_word =
\* min(start_word + S, W) and as text the words [start_word, end_word) with
\* single spaces between them; every chunk holds between 1 and S words, and
\* of the chunks returned only the last may hold fewer than S.
C17_WindowShape ==
    ExplicitValidSizes =>
        LET words == Split(ing.text)
            S == ing.chunk_size.val
            O == ing.overlap.val
            chunks == ing.run.chunks
        IN \A j \in 1..Len(chunks) :
              LET from == (j - 1) * (S - O)
                  to == Min(from + S, Len(words))
              IN /\ chunks[j].start_word = from
                 /\ chunks[j].end_word = to
                 /\ to - from \in 1..S
                 /\ Len(chunks[j].text) = 2 * (to - from) - 1
                 /\ \A i \in 1..Len(chunks[j].text) :
                       chunks[j].text[i] = IF i % 2 = 1 THEN words[from + (i + 1) \div 2]
                                           ELSE <<" ">>
                 /\ (ing.run.pc = "done" /\ j < Len(chunks)) => to - from = S

\* C18: in the list one ingest_syllabus run returns, the chunk at position i
\* (from 0) has chunk_id = i: the ids are zero-based, consecutive, pairwise
\* distinct and follow the chunking order, the order of chunk_text's windows
\* by ascending start word.
C18_ChunkIdIsPosition ==
    (ing.op = "ingest_syllabus" /\ ~ing.raised) =>
        LET windows == RunLoop(EnterChunkText(ing.text, NoneInt, NoneInt)).chunks
        IN /\ Len(ing.result) = Len(windows)
           /\ \A n \in 1..Len(ing.result) :
                 /\ ing.result[n].chunk_id = n - 1
                 /\ ing.result[n].text = windows[n].text
           /\ \A m, n \in 1..Len(ing.result) :
                 /\ m # n => ing.result[m].chunk_id # ing.result[n].chunk_id
                 /\ m < n => windows[m].start_word < windows[n].start_word

\* C18's case: a run over a PDF whose pages give three chunks
C18_Witness ==
    /\ ing.op = "ingest_syllabus"
    /\ ~ing.raised
    /\ Len(ing.result) = 3
    /\ ing.result[3].chunk_id = 2
    /\ ing.result[3].text # ing.result[2].text

\* the word is at position i of s in any letter case, followed by characters
\* of [\s-], none or more, and then by a digit
HeadingAt(s, i, word) ==
    /\ i + Len(word) - 1 <= Len(s)
    /\ \A h \in 1..Len(word) : LowerChar(s[i + h - 1]) = word[h]
    /\ \E d \in (i + Len(word))..Len(s) :
          /\ \A h \in (i + Len(word))..(d - 1) : s[h] = "-" \/ IsSpace(s[h])
          /\ IsDigit(s[d])

\* num is the whole number of the heading at position i
HeadingNumber(s, i, word, num) ==
    /\ HeadingAt(s, i, word)
    /\ \E d \in (i + Len(word))..(Len(s) - Len(num) + 1) :
          /\ \A h \in (i + Len(word))..(d - 1) : ~IsDigit(s[h])
          /\ SubSeq(s, d, d + Len(num) - 1) = num
          /\ \A h \in 1..Len(num) : IsDigit(num[h])
          /\ (d + Len(num) <= Len(s)) => ~IsDigit(s[d + Len(num)])

\* s has a heading of this word somewhere
HasHeading(s, word) == \E i \in 1..Len(s) : HeadingAt(s, i, word)

\* num is the number of the first heading of this word in s
FirstHeading(s, word, num) ==
    \E i \in 1..Len(s) :
        /\ HeadingNumber(s, i, word, num)
        /\ \A h \in 1..(i - 1) : ~HeadingAt(s, h, word)

\* C19: the label detect_unit returns is determined by the text alone and is
\* either 'Unknown' or 'Unit-<n>': the number of the first 'unit' heading when
\* the text has one anywhere, in any letter case, otherwise the number of the
\* first 'chapter' heading, and 'Unknown' only when it has neither.
C19_UnitBeforeChapter ==
    (ing.op = "detect_unit") =>
        LET s == Chars(ing.text)
            unit == <<"u", "n", "i", "t">>
            chapter == <<"c", "h", "a", "p", "t", "e", "r">>
            num == SubSeq(ing.label, 6, Len(ing.label))
        IN /\ \/ ing.label = <<"U", "n", "k", "n", "o", "w", "n">>
              \/ /\ SubSeq(ing.label, 1, 5) = <<"U", "n", "i", "t", "-">>
                 /\ Len(num) >= 1
                 /\ \A h \in 1..Len(num) : IsDigit(num[h])
           /\ HasHeading(s, unit) =>
                 (ing.label # UnitUnknown /\ FirstHeading(s, unit, num))
           /\ (~HasHeading(s, unit) /\ HasHeading(s, chapter)) =>
                 (ing.label # UnitUnknown /\ FirstHeading(s, chapter, num))
           /\ (~HasHeading(s, unit) /\ ~HasHeading(s, chapter)) =>
                 ing.label = UnitUnknown

\* C19's case: a chapter heading comes first in the text, a unit heading
\* in upper case later, and the label is the unit heading's
C19_Witness ==
    /\ ing.op = "detect_unit"
    /\ Chars(ing.text) = <<"c", "h", "a", "p", "t", "e", "r", "-", " ", "2", " ",
                           "U", "N", "I", "T", "-", "3">>
    /\ ing.label = <<"U", "n", "i", "t", "-", "3">>

\* C20: for every successfully built store, save_index followed by
\* load_index into a fresh store gives a chunk list equal to the saved
\* store's, field for field and in the same order, the same dimension, and
\* for every query and top_k the same search results (same chunks, same
\* order, same distances) as the saved store gives.
C20_RoundTrip ==
    \A chunks \in ChunkLists :
        LET built == build_index(NewStore, chunks, TRUE)
            saved == save_index(built.store, NoFiles, "none")
        IN (~built.raised /\ ~saved.out.raised /\ disk = saved.disk) =>
              /\ last.op = "load_index" =>
                    /\ ~last.raised
                    /\ store.chunks = built.store.chunks
                    /\ store.dimension = built.store.dimension
                    /\ \A query \in Queries, top_k \in 1..MaxK :
                          search(store, query, top_k, TRUE).result
                            = search(built.store, query, top_k, TRUE).result
              /\ (last.op = "search" /\ succeeded /\ last.exc # "EncoderError") =>
                    /\ ~last.raised
                    /\ last.result = search(built.store, last.args.query,
                                            last.args.top_k.val, TRUE).result

\* C20's case: a fresh store has loaded the files saved from a store built
\* over two chunks, one of them without text, and has been searched
C20_Witness ==
    /\ last.op = "search"
    /\ ~last.raised
    /\ succeeded
    /\ disk.index.state = "ok"
    /\ disk.chunks.state = "ok"
    /\ store = load_index(NewStore, disk).store
    /\ Len(store.chunks) = 2
    /\ \E i \in 1..2 : store.chunks[i].text = ""
    /\ Len(last.result) = 1

\* the two artifact files go together: both absent, or both readable with
\* as many index rows as chunks
PairConsistent(files) ==
    \/ files.index.state = "absent" /\ files.chunks.state = "absent"
    \/ /\ files.index.state = "ok"
       /\ files.chunks.state = "ok"
       /\ Len(files.index.index.rows) = Len(files.chunks.chunks)

\* C21: after every save_index call, returned or raised (a save that fails
\* after writing the index file and before writing the chunk file included),
\* the index file and the chunk file come from the same build and hold the
\* same number of rows.
C21_PersistedPairConsistent ==
    (last.op = "save_index") => PairConsistent(disk)

\* C22: once a build_index or load_index call has succeeded on a store, no
\* later build_index, load_index, save_index or search call on it, returning
\* or raising, sets its index back to None, and search never raises the
\* index-not-built error on it again.
C22_NoTransitionOutOfReady ==
    succeeded =>
        /\ ~store.index.none
        /\ last.op = "search" => last.exc # "ValueError"

\* C22's case: on a store that was built, a later build_index has raised
C22_Witness ==
    /\ succeeded
    /\ last.op = "build_index"
    /\ last.raised
    /\ ~store.index.none

\* the list is empty, or none of its chunks has a text
NoTexts(chunks) == \A i \in 1..Len(chunks) : chunks[i].text = ""

\* C23: build_index raises, without calling the embedder and without
\* creating an index, when the chunk list is empty or every chunk in it has
\* an empty text.
C23_EmptyInputRaises ==
    [][(last'.op = "build_index" /\ NoTexts(last'.args.chunks)) =>
          /\ last'.raised
          /\ last'.exc = "ValueError"
          /\ last'.calls = <<>>
          /\ store'.index = store.index]_vars

\* C23's case: build_index on a new store over two chunks, both without text
C23_Witness ==
    /\ last.op = "build_index"
    /\ Len(last.args.chunks) = 2
    /\ NoTexts(last.args.chunks)
    /\ last.raised
    /\ store.index.none

\* chunk_text has been called on a 900-word text with chunk_size = 200 and
\* overlap = 40
InScenario ==
    /\ ing.op = "chunk_text"
    /\ Len(Split(ing.text)) = ScenarioWords
    /\ ing.chunk_size = Some(ScenarioSize)
    /\ ing.overlap = Some(ScenarioOverlap)

\* C24: chunking a 900-word text with chunk_size = 200 and overlap = 40
\* produces exactly 6 chunks (the call is over after 6 iterations), and a
\* search with top_k = 2 over the index built from them returns exactly 2
\* results in non-decreasing order of distance.
C24_EndToEnd ==
    InScenario =>
        /\ ing.run.iterations >= 6 => ing.run.pc = "done"
        /\ ing.run.pc = "done" => Len(ing.run.chunks) = 6
        /\ last.op = "build_index" =>
              (last.args.chunks = StoreChunks(ing.run.chunks)
               /\ (last.exc # "EncoderError" => ~last.raised))
        /\ (last.op = "search" /\ succeeded /\ last.args.top_k.val = 2
            /\ last.exc # "EncoderError") =>
              /\ ~last.raised
              /\ Len(last.result) = 2
              /\ last.result[1].distance <= last.result[2].distance
              /\ \A i \in 1..2 : \E n \in 1..Len(ing.run.chunks) :
                    /\ last.result[i].start_word = ing.run.chunks[n].start_word
                    /\ last.result[i].text = AsString(ing.run.chunks[n].text)

\* C24's case: the six chunks are indexed and the search for 2 has returned
C24_Witness ==
    /\ InScenario
    /\ Len(store.chunks) = 6
    /\ Len(store.index.rows) = 6
    /\ last.op = "search"
    /\ last.args.top_k.val = 2
    /\ Len(last.result) = 2

\* the block of the i-th chunk: its header line, a newline, the chunk's text
BlockOf(i, chunk) ==
    <<"[Chunk ">> \o Digits(i) \o <<" - ">> \o chunk.unit \o <<"]">>
    \o <<"\n">> \o <<chunk.text>>

RECURSIVE FirstBlocks(_, _)
\* the blocks of the first n chunks, a blank line between neighbours
FirstBlocks(chunks, n) ==
    IF n = 0 THEN <<>>
    ELSE IF n = 1 THEN BlockOf(1, chunks[1])
    ELSE FirstBlocks(chunks, n - 1) \o <<"\n\n">> \o BlockOf(n, chunks[n])

\* what retrieve returns for the arguments of the retrieve_context call that
\* has just returned
RetrievedForContext ==
    retrieve(retr, last.args.query, last.args.top_k, NoneSeq, NoneStr, TRUE).result

\* C25: retrieve_context returns the empty string exactly when retrieve
\* returns no chunks; otherwise it returns one block per chunk in retrieve's
\* order, block i (counted from 1) being the header "[Chunk i - <unit>]", a
\* newline and the chunk's text, the blocks separated by one blank line.
C25_ContextBlocks ==
    (last.op = "retrieve_context" /\ ~last.raised) =>
        /\ (last.result = <<>>) <=> (RetrievedForContext = <<>>)
        /\ last.result = FirstBlocks(RetrievedForContext, Len(RetrievedForContext))

\* C25's case: a context of two blocks has been returned
C25_Witness ==
    /\ last.op = "retrieve_context"
    /\ ~last.raised
    /\ Len(RetrievedForContext) = 2
    /\ last.result # <<>>
    /\ RetrievedForContext[1].unit # RetrievedForContext[2].unit

\* the fraction a is at least the fraction b (positive denominators)
AtLeast(a, b) == a.num * b.den >= b.num * a.den

\* C26: every result of a search has score = 1 / (1 + distance), so
\* 0 < score <= 1, and along the result list the scores do not increase
\* while the distances do not decrease.
C26_ScoreFromDistance ==
    (last.op = "search" /\ ~last.raised) =>
        /\ \A i \in 1..Len(last.result) :
              /\ last.result[i].distance >= 0
              /\ last.result[i].score.num = 1
              /\ last.result[i].score.den = 1 + last.result[i].distance
              /\ 0 < last.result[i].score.num
              /\ last.result[i].score.num <= last.result[i].score.den
        /\ \A i, j \in 1..Len(last.result) :
              i < j => /\ last.result[i].distance <= last.result[j].distance
                       /\ AtLeast(last.result[i].score, last.result[j].score)

\* C26's case: two results, the second farther away and with a smaller score
C26_Witness ==
    /\ last.op = "search"
    /\ Len(last.result) = 2
    /\ last.result[1].distance < last.result[2].distance
    /\ ~AtLeast(last.result[2].score, last.result[1].score)

\* the result r of a search is a copy of a chunk of the list, with the two
\* fields search adds
HitOn(r, chunks) ==
    \E n \in 1..Len(chunks) :
        r = [distance |-> r.distance, score |-> r.score] @@ chunks[n]

\* C27: a build_index call that succeeds replaces what the store held: the
\* index holds the vectors of the call's chunks and no others (none is
\* appended to an earlier build's), the chunk list is the call's list, and
\* every result of a search is a chunk of that list.
C27_RebuildReplaces ==
    (last.op = "build_index" /\ ~last.raised) =>
        /\ store.chunks = last.args.chunks
        /\ store.index.rows = EncodeBatch(BuildTexts(last.args.chunks))
        /\ Len(store.index.rows) <= Len(last.args.chunks)
        /\ store.dimension = store.index.d
        /\ \A query \in Queries, top_k \in 1..MaxK :
              LET found == search(store, query, top_k, TRUE)
              IN /\ ~found.raised
                 /\ Len(found.result) <= Len(store.index.rows)
                 /\ \A i \in 1..Len(found.result) :
                       HitOn(found.result[i], last.args.chunks)

\* C27's case: the second build has succeeded on a list that shares no chunk
\* with the first build's, whose two vectors and chunks the saved files show
C27_Witness ==
    /\ last.op = "build_index"
    /\ ~last.raised
    /\ disk.index.state = "ok"
    /\ disk.chunks.state = "ok"
    /\ Len(disk.index.index.rows) = 2
    /\ Len(store.index.rows) = 1
    /\ \A n \in 1..Len(disk.chunks.chunks) : ~HitOn(
          [distance |-> 0, score |-> [num |-> 1, den |-> 1]] @@ disk.chunks.chunks[n],
          store.chunks)

\* no stored chunk carries a field that search adds to its results
NoSearchFields(chunks) ==
    \A n \in 1..Len(chunks) :
        "distance" \notin DOMAIN chunks[n] /\ "score" \notin DOMAIN chunks[n]

\* C28: search only reads the store: whether it returns or raises, the
\* index, the dimension and the chunk list are what they were before the
\* call, no stored chunk acquires "distance" or "score", and the same search
\* made again on the store gives the same results.
C28_SearchReadOnly ==
    [][(last'.op = "search") =>
          /\ store'.index = store.index
          /\ store'.dimension = store.dimension
          /\ store'.chunks = store.chunks
          /\ NoSearchFields(store'.chunks)
          /\ ~last'.raised =>
                last'.result = search(store', last'.args.query,
                                      last'.args.top_k.val, TRUE).result]_vars

\* C28's case: a search has returned two results, each carrying the added
\* fields, from a store of two chunks
C28_Witness ==
    /\ last.op = "search"
    /\ Len(last.result) = 2
    /\ Len(store.chunks) = 2
    /\ \A i \in 1..2 : "distance" \in DOMAIN last.result[i]
                       /\ "score" \in DOMAIN last.result[i]
    /\ NoSearchFields(store.chunks)

\* C29: a retriever's readiness is fixed when it is constructed: its store
\* is what _load_store made of the files found then, is_ready returns
\* whether that store exists, and no is_ready, retrieve or retrieve_context
\* call and no later creation, replacement or removal of the artifact files
\* changes the store or what is_ready returns.
C29_ReadinessFixed ==
    [][/\ (retr.constructed /\ last'.op # "RAGRetriever") =>
             /\ retr' = retr
             /\ is_ready(retr') = is_ready(retr)
       /\ retr'.constructed =>
             retr'.store = load_store(seen'.files, seen'.model_ok)
       /\ last'.op = "is_ready" => last'.ready = is_ready(retr)]_vars

\* C29's case: a retriever constructed before the index was built has just
\* said it is not ready, although a loadable pair of files is on disk now
C29_Witness ==
    /\ retr.constructed
    /\ last.op = "is_ready"
    /\ ~last.ready
    /\ seen.model_ok
    /\ ~load_store(disk, TRUE).none

\* C29's other case: a retriever constructed over one pair of files has just
\* returned chunks of it, although another pair is on disk now
C29_WitnessServing ==
    /\ retr.constructed
    /\ last.op = "retrieve"
    /\ last.result # <<>>
    /\ disk.chunks.state = "ok"
    /\ disk # seen.files
    /\ \A i \in 1..Len(last.result) : ~HitOn(last.result[i], disk.chunks.chunks)

\* how many word indices the ranges [a.start_word, a.end_word) and
\* [b.start_word, b.end_word) have in common
SharedWords(a, b) ==
    Cardinality({ w \in a.start_word..(a.end_word - 1) :
                    b.start_word <= w /\ w < b.end_word })

\* C30: for explicitly passed S and O with 0 <= O < S, when chunk_text has
\* returned, every word index in [0, W) lies in the range
\* [start_word, end_word) of at least one chunk, and two consecutive chunks
\* share exactly the indices from the later chunk's start_word up to the
\* earlier chunk's end_word: O words whenever the earlier chunk holds S words.
C30_Coverage ==
    (ExplicitValidSizes /\ ing.run.pc = "done") =>
        LET W == Len(Split(ing.text))
            S == ing.chunk_size.val
            O == ing.overlap.val
            chunks == ing.run.chunks
        IN /\ \A w \in 0..(W - 1) :
                 \E j \in 1..Len(chunks) :
                    chunks[j].start_word <= w /\ w < chunks[j].end_word
           /\ \A j \in 1..(Len(chunks) - 1) :
                 /\ chunks[j].start_word <= chunks[j + 1].start_word
                 /\ chunks[j].end_word <= chunks[j + 1].end_word
                 /\ SharedWords(chunks[j], chunks[j + 1]) =
                       IF chunks[j + 1].start_word < chunks[j].end_word
                       THEN chunks[j].end_word - chunks[j + 1].start_word ELSE 0
                 /\ (chunks[j].end_word - chunks[j].start_word = S) =>
                       SharedWords(chunks[j], chunks[j + 1]) = O

====
